---- MODULE Spec2Model ----
(***************************************************************************)
(* A model of DeployManager (rush "deploy"): the dependency-folder         *)
(* resolver (_collectFoldersRecursive), the folder and link materializers  *)
(* (_deployFolder, _deploySymlink), and the orchestration of               *)
(* deployScenario / _deploySubdeployment.                                  *)
(*                                                                         *)
(* Paths are sequences of segments, a package name is <<scope, base>>,     *)
(* the filesystem is the set of paths that exist as a file or a folder     *)
(* plus the set of symbolic links.  One run of deployScenario is one       *)
(* behaviour; pc is the position of the run in the code.                   *)
(***************************************************************************)
EXTENDS Integers, Sequences, FiniteSets, TLC

VARIABLES
  \* ---- the inputs of the run (never changed by it) ----
  scenarioFile,          \* content of common/config/deploy-scenarios/<name>.json, or NoFile
  manifest,              \* package.json of every package folder: name -> kind -> set of names
  srcLinks,              \* the symbolic links of the source tree: set of ILinkInfo
  disk0,                 \* the files and folders that exist when the run starts
  overwriteExisting,     \* parameter of deployScenario
  targetFolderParameter, \* parameter of deployScenario (NoPath: undefined)
  resolveFailure,        \* how resolve.sync reports a name it cannot resolve
  platform,              \* process.platform
  calls,                 \* the deployScenario calls made on this DeployManager, this one included
  \* ---- the filesystem ----
  disk,                  \* the files and folders that exist now
  createdLinks,          \* links created by _deploySymlink
  \* ---- fields of DeployManager ----
  deployScenarioJson,
  projectJsonsByName,    \* _deployScenarioProjectJsonsByName
  targetRootFolder,
  sourceRootFolder,
  \* ---- locals of deployScenario ----
  pc,
  error,
  subIdx,                \* index into subdeploymentProjects (or 1 for the single deployment)
  usedNames,             \* usedSubdeploymentFolderNames
  \* ---- locals of _deploySubdeployment ----
  included,              \* includedProjectNamesSet, in insertion order
  projIdx,
  targetSubFolder,       \* subdemploymentState.targetSubdeploymentFolder
  recorded,              \* subdemploymentState.symlinkAnalyzer: links recorded so far
  foldersToCopy,         \* subdemploymentState.foldersToCopy, in iteration order
  copyIdx,
  linksToCopy,           \* links of reportSymlinks() not yet handed to _deploySymlink
  stack,                 \* call stack of _collectFoldersRecursive
  \* ---- history (observation only) ----
  log,                   \* the resolve / copy / link steps taken, in order
  descents,              \* folders whose body _collectFoldersRecursive has entered in the
                         \* current subdeployment, in order
  collectCall,           \* the current top-level _collectFoldersRecursive call
  lastLink,              \* the last _deploySymlink call and its outcome
  started,               \* the subdeployments begun: project names, folder name, target
  finished,              \* the subdeployments that returned: folders and links they held
  \* ---- lockfile-explorer, commands/utils.ts ----
  lockfileVersion,       \* the argument of getShrinkwrapFileMajorVersion
  majorVersion           \* its outcome: not called, a returned number, or thrown

lockfileVars == <<lockfileVersion, majorVersion>>
worldVars == <<scenarioFile, manifest, srcLinks, disk0, overwriteExisting,
               targetFolderParameter, resolveFailure, platform, calls, lockfileVars>>
fsVars == <<disk, createdLinks>>
fieldVars == <<deployScenarioJson, projectJsonsByName, targetRootFolder, sourceRootFolder>>
subVars == <<included, projIdx, targetSubFolder, recorded, foldersToCopy, copyIdx,
             linksToCopy, stack>>
histVars == <<log, descents, collectCall, lastLink, started, finished>>
vars == <<worldVars, fsVars, fieldVars, pc, error, subIdx, usedNames, subVars, histVars>>

----------------------------------------------------------------------------
(* Bounds of the model *)

\* the manifests of a resolver world declare at most this many dependency edges
MaxEdges == 3
\* entries of projectSettings plus entries of subdeploymentProjects of a scenario
MaxScenarioSize == 4
\* deployScenario calls made on one DeployManager
MaxCalls == 2
\* a lockfileVersion string has at most this many characters
MaxLen == 3
\* a lockfileVersion number is at most this many tenths
MaxTenths == 75

----------------------------------------------------------------------------
(* Paths *)

NoPath == <<>>

IsPrefix(p, q) == Len(p) <= Len(q) /\ SubSeq(q, 1, Len(p)) = p

\* Path.isUnderOrEqual(path, root)
IsUnderOrEqual(p, root) == IsPrefix(root, p)

\* path.dirname
Dirname(p) == SubSeq(p, 1, Len(p) - 1)

\* path.join
Join(p, q) == p \o q

RECURSIVE CommonLen(_, _)
CommonLen(p, q) ==
  IF p # <<>> /\ q # <<>> /\ Head(p) = Head(q)
    THEN 1 + CommonLen(Tail(p), Tail(q))
    ELSE 0

\* path.relative(from, to): ".." for every segment of from past the common
\* prefix, then the rest of to
Relative(from, to) ==
  LET c == CommonLen(from, to) IN
  [i \in 1..(Len(from) - c) |-> ".."] \o SubSeq(to, c + 1, Len(to))

\* a folder and all its ancestors below the filesystem root
Prefixes(p) == {SubSeq(p, 1, k) : k \in 1..Len(p)}

\* the order of path segments as JavaScript compares strings
SegOrder ==
  <<"@s", "a", "b", "c", "common", "d", "deploy", "e", "lnk", "node_modules", "o", "old",
    "p", "package.json", "r", "sa", "t", "x", "y">>

SegRank(s) == CHOOSE i \in 1..Len(SegOrder) : SegOrder[i] = s

RECURSIVE PathLess(_, _)
PathLess(p, q) ==
  IF p = <<>> THEN q # <<>>
  ELSE IF q = <<>> THEN FALSE
  ELSE IF Head(p) = Head(q) THEN PathLess(Tail(p), Tail(q))
  ELSE SegRank(Head(p)) < SegRank(Head(q))

RECURSIVE SortPaths(_)
SortPaths(S) ==
  IF S = {} THEN <<>>
  ELSE LET m == CHOOSE x \in S : \A y \in S \ {x} : PathLess(x, y)
       IN <<m>> \o SortPaths(S \ {m})

SeqToSet(s) == {s[i] : i \in 1..Len(s)}

----------------------------------------------------------------------------
(* The workspace: package names, the project registry (rush.json), folders *)

NA  == <<"", "a">>
NSA == <<"@s", "a">>
NB  == <<"", "b">>
NC  == <<"", "c">>
NE  == <<"", "e">>
ND  == <<"", "d">>       \* installed as a real folder below a's node_modules
NP  == <<"", "p">>       \* a project whose folder lies inside project a's folder
NZ  == <<"", "z">>       \* a name that is neither a project nor a package on disk

\* the packages that have a folder on disk, and the order of their names
PkgNames == {NA, NSA, NB, NC, NE, ND, NP}
NameOrder == <<NA, NSA, NB, NC, NE, ND, NP, NZ>>

\* rushConfiguration.rushJsonFolder and rushConfiguration.commonFolder
RushJsonFolder == <<"r">>
CommonFolder == <<"r", "common">>

\* the projects of rush.json
RushProjects == {NA, NSA, NB, NP}

\* the folder of a package: projects under the repository root, one installed
\* package under common/, one package outside the repository, one package
\* installed below a project's node_modules, one project inside another
Home(n) ==
  CASE n = NA  -> <<"r", "a">>
    [] n = NSA -> <<"r", "sa">>
    [] n = NB  -> <<"r", "b">>
    [] n = NC  -> <<"r", "common", "c">>
    [] n = NE  -> <<"o", "e">>
    [] n = ND  -> <<"r", "a", "node_modules", "d">>
    [] n = NP  -> <<"r", "a", "p">>

\* rushConfiguration.getProjectByName(name).projectFolder, NoPath when undefined
GetProjectByName(n) == IF n \in RushProjects THEN Home(n) ELSE NoPath

\* rushConfiguration.packageNameParser.getUnscopedName(name)
GetUnscopedName(n) == n[2]

\* the path of a package name below node_modules: "@s/a" is two segments
NameSegs(n) == IF n[1] = "" THEN <<n[2]>> ELSE <<n[1], n[2]>>

DepKinds == {"dependencies", "devDependencies", "peerDependencies", "optionalDependencies"}

\* Object.keys of a dependency table, in the order the names are written
Keys(S) == SelectSeq(NameOrder, LAMBDA n : n \in S)

\* the manifests declaring the edges E, an edge being <<from, kind, to>>
ManifestOf(E) ==
  [n \in PkgNames |-> [k \in DepKinds |-> {e[3] : e \in {x \in E : x[1] = n /\ x[2] = k}}]]

\* the names an installation makes no link for: not installed, or installed as
\* a real folder
Unlinked == {NZ, ND}

\* the node_modules links an installation creates: one per declared name that
\* is installed, from <folder>/node_modules/<name> to the package's folder
InstalledLinks(E, missing) ==
  {[kind |-> "folderLink",
    linkPath |-> Home(e[1]) \o <<"node_modules">> \o NameSegs(e[3]),
    targetPath |-> Home(e[3])] : e \in {x \in E : x[3] \notin missing}}

\* the files and folders of the source tree: every package folder with its
\* package.json, and the node_modules folders that hold the installed links
SourceDisk(links) ==
  UNION {Prefixes(Home(n)) \cup {Home(n) \o <<"package.json">>} : n \in PkgNames}
  \cup UNION {Prefixes(Dirname(l.linkPath)) : l \in links}

\* the target root before the run: absent, an empty folder, or holding a file
TargetDisk(root, state) ==
  CASE state = "absent"   -> {}
    [] state = "empty"    -> Prefixes(root)
    [] state = "nonEmpty" -> Prefixes(root) \cup {root \o <<"old">>}

DefaultTarget == Join(CommonFolder, <<"deploy">>)

(* Scenario files *)

Setting(name, folderName, additional) ==
  [projectName |-> name, subdeploymentFolderName |-> folderName,
   additionalProjectsToInclude |-> additional]

Scenario(dev, settings, enabled, subProjects) ==
  [includeDevDependencies |-> dev, projectSettings |-> settings,
   subdeployments |-> [enabled |-> enabled, subdeploymentProjects |-> subProjects]]

EmptyScenario == Scenario(FALSE, <<>>, FALSE, <<>>)
File(json) == [exists |-> TRUE, json |-> json]
NoFile == [exists |-> FALSE, json |-> EmptyScenario]

----------------------------------------------------------------------------
(* Collaborators of DeployManager *)

\* SymlinkAnalyzer.analyzePath(path): every symbolic link met on the way down
\* the path is recorded, each once
AnalyzePath(p, links) == {l \in links : IsPrefix(l.linkPath, p)}

\* SymlinkAnalyzer.reportSymlinks(): the recorded links; the order of the list
\* is left to the caller's loop
ReportSymlinks(rec) == rec

\* fs.realpathSync: the path with every link on it replaced by its target
RECURSIVE RealPath(_, _)
RealPath(p, links) ==
  LET hit == {l \in links : IsPrefix(l.linkPath, p)} IN
  IF hit = {} THEN p
  ELSE LET l == CHOOSE x \in hit : \A y \in hit : Len(x.linkPath) <= Len(y.linkPath)
       IN RealPath(l.targetPath \o SubSeq(p, Len(l.linkPath) + 1, Len(p)), links)

\* FileSystem.exists
Exists(p, d) == p \in d

\* FileSystem.ensureFolder: the folder and its missing ancestors
EnsureFolder(p, d) == d \cup Prefixes(p)

\* FileSystem.readFolder: the entries directly below a folder
ReadFolder(p, d) == {q \in d : Len(q) = Len(p) + 1 /\ IsPrefix(p, q)}

\* FileSystem.ensureEmptyFolder: everything below the folder is deleted
EnsureEmptyFolder(p, d) == {q \in d : ~(IsPrefix(p, q) /\ q # p)} \cup Prefixes(p)

\* a path is a file when its last segment is a file name, a folder otherwise
FileNames == {"package.json", "old"}
IsFile(p) == p # <<>> /\ p[Len(p)] \in FileNames

\* resolve.sync(name, {basedir, preserveSymlinks: false, packageFilter: main =
\* "./package.json", realpathSync}): node's lookup of <dir>/node_modules/<name>
\* from basedir upwards; the result is the real path of the package's
\* package.json.  probe is the path handed to the realpathSync callback.
RECURSIVE ResolveSync(_, _, _, _)
ResolveSync(name, dir, d, links) ==
  LET probe == dir \o <<"node_modules">> \o NameSegs(name) \o <<"package.json">>
      real == RealPath(probe, links)
  IN IF real \in d THEN [found |-> TRUE, path |-> real, probe |-> probe]
     ELSE IF dir = <<>> THEN [found |-> FALSE, path |-> NoPath, probe |-> NoPath]
     ELSE ResolveSync(name, Dirname(dir), d, links)

\* PackageJsonLookup.tryGetPackageJsonFilePathFor(path): the package.json of
\* the nearest folder at or above the path that has one, NoPath when none has
RECURSIVE TryGetPackageJsonFilePathFor(_, _)
TryGetPackageJsonFilePathFor(p, d) ==
  IF p = <<>> THEN NoPath
  ELSE IF ~IsFile(p) /\ (p \o <<"package.json">>) \in d THEN p \o <<"package.json">>
  ELSE TryGetPackageJsonFilePathFor(Dirname(p), d)

\* JsonFile.load(<folder>/package.json)
LoadPackageJson(folder, m) ==
  LET owner == {n \in DOMAIN m : Home(n) = folder} IN
  IF owner = {} THEN [k \in DepKinds |-> {}] ELSE m[CHOOSE n \in owner : TRUE]

\* Set.add on a set kept in insertion order
RECURSIVE AddAll(_, _)
AddAll(s, xs) ==
  IF xs = <<>> THEN s
  ELSE AddAll(IF Head(xs) \in SeqToSet(s) THEN s ELSE Append(s, Head(xs)), Tail(xs))

----------------------------------------------------------------------------
(* DeployManager: the pure parts *)

\* a resolver that takes devDependencies whatever includeDevDependencies says
AllDependencyNames_DevAlways(packageJson, includeDev) ==
  AddAll(AddAll(AddAll(AddAll(<<>>,
    Keys(packageJson["dependencies"])),
    Keys(packageJson["devDependencies"])),
    Keys(packageJson["peerDependencies"])),
    Keys(packageJson["optionalDependencies"]))

\* _collectFoldersRecursive, lines 96-116: allDependencyNames in iteration order
AllDependencyNames(packageJson, includeDev) ==
  AddAll(AddAll(AddAll(AddAll(<<>>,
    Keys(packageJson["dependencies"])),
    IF includeDev THEN Keys(packageJson["devDependencies"]) ELSE <<>>),
    Keys(packageJson["peerDependencies"])),
    Keys(packageJson["optionalDependencies"]))

\* _collectFoldersRecursive, lines 99, 109-116: optionalDependencyNames
OptionalDependencyNames(packageJson) ==
  packageJson["peerDependencies"] \cup packageJson["optionalDependencies"]

\* a remapping that does not test that the path is under the source root
RemapPathForDeployFolder_Unchecked(absolutePath, sourceRoot, targetSub) ==
  [ok |-> TRUE, path |-> Join(targetSub, Relative(sourceRoot, absolutePath))]

\* _remapPathForDeployFolder: ok is FALSE when the code throws
RemapPathForDeployFolder(absolutePath, sourceRoot, targetSub) ==
  IF ~IsUnderOrEqual(absolutePath, sourceRoot)
    THEN [ok |-> FALSE, path |-> NoPath]
    ELSE [ok |-> TRUE, path |-> Join(targetSub, Relative(sourceRoot, absolutePath))]

----------------------------------------------------------------------------
(* The runs that are checked: the inputs of deployScenario *)

World(scn, E, inner, param, tstate, ow, rf, plat) ==
  [scenario |-> scn, edges |-> E, inner |-> inner, param |-> param, tstate |-> tstate,
   overwrite |-> ow, failure |-> rf, platform |-> plat]

Edge(from, kind, to) == <<from, kind, to>>

\* how resolve.sync may report a name it cannot resolve: by throwing (what the
\* "resolve" package documents) or by the falsy result line 143 tests for
ResolveFailures == {"throw", "falsy"}

DeployA == File(Scenario(FALSE, <<Setting(NA, "", <<>>)>>, FALSE, <<>>))
DeployADev == File(Scenario(TRUE, <<Setting(NA, "", <<>>)>>, FALSE, <<>>))

(* 1. Resolver worlds: project "a" is deployed alone, the manifests vary *)
CandidateEdges ==
  {Edge(NA, "dependencies", NB), Edge(NA, "devDependencies", NB),
   Edge(NA, "peerDependencies", NB), Edge(NA, "optionalDependencies", NB),
   Edge(NA, "dependencies", NC), Edge(NA, "devDependencies", NC),
   Edge(NA, "dependencies", NZ), Edge(NA, "peerDependencies", NZ),
   Edge(NA, "optionalDependencies", NZ), Edge(NA, "dependencies", NE),
   Edge(NB, "dependencies", NC), Edge(NB, "dependencies", NB),
   Edge(NB, "dependencies", NA), Edge(NB, "dependencies", NZ),
   Edge(NC, "dependencies", NB)}

ResolverWorlds ==
  {World(scn, E, {}, NoPath, "absent", FALSE, rf, "linux") :
     scn \in {DeployA, DeployADev},
     E \in {X \in SUBSET CandidateEdges : Cardinality(X) <= MaxEdges},
     rf \in ResolveFailures}

(* 2. Link worlds: a link inside project "a", met while its folder is copied *)
Link(kind, linkPath, targetPath) ==
  [kind |-> kind, linkPath |-> linkPath, targetPath |-> targetPath]

InnerLinks ==
  {Link("folderLink", <<"r", "a", "lnk">>, <<"r", "b">>),
   Link("folderLink", <<"r", "a", "lnk">>, <<"r", "common">>),
   Link("folderLink", <<"r", "a", "lnk">>, <<"o", "e">>),
   Link("fileLink", <<"r", "a", "lnk">>, <<"r", "b", "package.json">>),
   Link("folderLink", <<"r", "b", "lnk">>, <<"r", "common", "c">>)}

LinkGraphs ==
  {{}, {Edge(NA, "dependencies", NB)}, {Edge(NA, "dependencies", NC)},
   {Edge(NA, "dependencies", NB), Edge(NB, "dependencies", NC)}}

LinkWorlds ==
  {World(DeployA, E, inner, NoPath, "absent", FALSE, "throw", plat) :
     E \in LinkGraphs, inner \in {{l} : l \in InnerLinks}, plat \in {"win32", "linux"}}

(* 2b. Nested worlds: a package folder inside another package folder *)
NestedGraphs ==
  {{Edge(NA, "dependencies", ND)},
   {Edge(NA, "dependencies", NP)},
   {Edge(NA, "dependencies", ND), Edge(NA, "dependencies", NC)},
   {Edge(NB, "dependencies", NP)}}

DeployAB == File(Scenario(FALSE, <<Setting(NA, "", <<>>), Setting(NB, "", <<>>)>>, FALSE, <<>>))

NestedWorlds ==
  {World(scn, E, {}, NoPath, "absent", FALSE, "throw", "linux") :
     scn \in {DeployA, DeployAB}, E \in NestedGraphs}

(* 3. Scenario worlds: the scenario file varies *)
FolderNames == {"", "x", "y"}

SettingChoices(n) ==
  {Setting(n, f, <<>>) : f \in FolderNames} \cup {Setting(n, "", <<NZ>>)}

\* projectSettings: at most one entry per project, in any order
SettingLists ==
  {<<>>}
  \cup {<<s>> : s \in SettingChoices(NA) \cup SettingChoices(NSA)}
  \cup {<<s, t>> : s \in SettingChoices(NA), t \in SettingChoices(NSA)}
  \cup {<<t, s>> : s \in SettingChoices(NA), t \in SettingChoices(NSA)}

SubProjectLists(k) == UNION {[1..n -> {NA, NSA, NZ}] : n \in 0..k}

ScenarioGraph == {Edge(NA, "dependencies", NC), Edge(NSA, "dependencies", NC)}

ScenarioWorlds ==
  {World(File(Scenario(FALSE, ps, en, sp)), ScenarioGraph, {}, NoPath, "absent", FALSE,
         "throw", "linux") :
     ps \in {x \in SettingLists : Len(x) <= MaxScenarioSize},
     en \in BOOLEAN,
     sp \in SubProjectLists(MaxScenarioSize)}

ScenarioWorldsBounded ==
  {w \in ScenarioWorlds :
     /\ Len(w.scenario.json.projectSettings)
          + Len(w.scenario.json.subdeployments.subdeploymentProjects) <= MaxScenarioSize
     /\ (~w.scenario.json.subdeployments.enabled
           => w.scenario.json.subdeployments.subdeploymentProjects = <<>>)}

(* 4. Target worlds: the target folder (the default, a folder outside the *)
(* repository, the folder of project "a") and the overwrite flag vary     *)
TargetScenarios ==
  {NoFile,
   File(Scenario(FALSE, <<Setting(NZ, "", <<>>)>>, FALSE, <<>>)),
   File(Scenario(FALSE, <<Setting(NA, "", <<NZ>>)>>, FALSE, <<>>)),
   File(Scenario(FALSE, <<Setting(NA, "", <<NB>>)>>, FALSE, <<>>)),
   File(Scenario(FALSE, <<>>, FALSE, <<>>)),
   File(Scenario(FALSE, <<>>, TRUE, <<>>)),
   File(Scenario(FALSE, <<>>, TRUE, <<NA, NZ>>)),
   File(Scenario(FALSE, <<>>, TRUE, <<NA, NSA>>)),
   File(Scenario(FALSE, <<Setting(NSA, "x", <<>>)>>, TRUE, <<NA, NSA>>)),
   File(Scenario(FALSE, <<Setting(NA, "x", <<NB>>)>>, TRUE, <<NA, NSA>>)),
   DeployA}

TargetWorlds ==
  {World(scn, ScenarioGraph, {}, param, tstate, ow, "throw", "linux") :
     scn \in TargetScenarios,
     param \in {NoPath, <<"t">>, Home(NA)},
     tstate \in {"absent", "empty", "nonEmpty"},
     ow \in BOOLEAN}

Worlds ==
  ResolverWorlds \cup LinkWorlds \cup NestedWorlds \cup ScenarioWorldsBounded \cup TargetWorlds

NoLink == [called |-> FALSE, link |-> Link("", NoPath, NoPath), result |-> ""]
NoCall == [root |-> NoPath, startEmpty |-> FALSE, active |-> FALSE]
EmptyMap == [n \in {} |-> Setting(NZ, "", <<>>)]

----------------------------------------------------------------------------
(* lockfile-explorer, commands/utils.ts: getShrinkwrapFileMajorVersion *)

\* JavaScript values: a string is its characters, a number is finite (counted
\* in tenths), NaN, Infinity or -Infinity, any other value keeps only its type
JsString(chars) == [type |-> "string", chars |-> chars, kind |-> "", tenths |-> 0]
JsNumber(kind, tenths) == [type |-> "number", chars |-> <<>>, kind |-> kind, tenths |-> tenths]
JsOther(type) == [type |-> type, chars |-> <<>>, kind |-> "", tenths |-> 0]
Finite(tenths) == JsNumber("finite", tenths)
Integer(n) == Finite(10 * n)
NaN == JsNumber("NaN", 0)

\* the relations < and > on numbers: false when an operand is NaN
JsLess(x, y) ==
  /\ x.kind # "NaN" /\ y.kind # "NaN"
  /\ CASE x.kind = "-Infinity" -> y.kind # "-Infinity"
       [] x.kind = "Infinity"  -> FALSE
       [] x.kind = "finite"    -> \/ y.kind = "Infinity"
                                  \/ (y.kind = "finite" /\ x.tenths < y.tenths)
JsGreater(x, y) == JsLess(y, x)

\* Math.floor
MathFloor(x) == IF x.kind = "finite" THEN Finite(10 * (x.tenths \div 10)) ELSE x

Digits == <<"0", "1", "2", "3", "4", "5", "6", "7", "8", "9">>
IsDigit(c) == \E i \in 1..10 : Digits[i] = c
DigitValue(c) == (CHOOSE i \in 1..10 : Digits[i] = c) - 1

\* String.prototype.includes('.') and indexOf('.') (0-based, -1 when absent)
IncludesDot(chars) == \E i \in 1..Len(chars) : chars[i] = "."
IndexOfDot(chars) ==
  IF IncludesDot(chars)
    THEN (CHOOSE i \in 1..Len(chars) : chars[i] = "." /\ \A j \in 1..(i - 1) : chars[j] # ".") - 1
    ELSE -1

\* String.prototype.substring(0, end)
Substring0(chars, end) == SubSeq(chars, 1, end)

RECURSIVE SkipSpaces(_)
SkipSpaces(chars) ==
  IF chars # <<>> /\ Head(chars) = " " THEN SkipSpaces(Tail(chars)) ELSE chars

RECURSIVE LeadingDigits(_)
LeadingDigits(chars) ==
  IF chars # <<>> /\ IsDigit(Head(chars))
    THEN <<Head(chars)>> \o LeadingDigits(Tail(chars))
    ELSE <<>>

RECURSIVE DecimalValue(_)
DecimalValue(digits) ==
  IF digits = <<>> THEN 0
  ELSE 10 * DecimalValue(SubSeq(digits, 1, Len(digits) - 1)) + DigitValue(digits[Len(digits)])

\* parseInt(string, 10): leading white space is skipped, a sign is taken, then
\* the longest run of digits; NaN when there is no digit
ParseInt(chars) ==
  LET trimmed == SkipSpaces(chars)
      signed == trimmed # <<>> /\ Head(trimmed) \in {"-", "+"}
      digits == LeadingDigits(IF signed THEN Tail(trimmed) ELSE trimmed)
  IN IF digits = <<>> THEN NaN
     ELSE Integer(IF signed /\ Head(trimmed) = "-" THEN 0 - DecimalValue(digits)
                                                   ELSE DecimalValue(digits))

NotCalled == [status |-> "notCalled", value |-> NaN]
Returned(value) == [status |-> "returned", value |-> value]
Threw == [status |-> "threw", value |-> NaN]

\* lines 34-44: the major version computed from the argument
ShrinkwrapFileMajorVersion(version) ==
  IF version.type = "string"
    THEN ParseInt(IF IncludesDot(version.chars)
                    THEN Substring0(version.chars, IndexOfDot(version.chars))
                    ELSE version.chars)
  ELSE IF version.type = "number"
    THEN MathFloor(version)
  ELSE Integer(0)

\* lines 46-48: the test that throws
Unsupported(major) == JsLess(major, Integer(5)) \/ JsGreater(major, Integer(6))

\* getShrinkwrapFileMajorVersion(lockfileVersion)
GetShrinkwrapFileMajorVersion(version) ==
  LET major == ShrinkwrapFileMajorVersion(version) IN
  IF Unsupported(major) THEN Threw ELSE Returned(major)

\* the state before deployScenario is called in the world w
DeployInit(w) ==
    LET installed == InstalledLinks(w.edges, Unlinked)
        links == installed \cup w.inner
        root == IF w.param = NoPath THEN DefaultTarget ELSE w.param
    IN
    /\ scenarioFile = w.scenario
    /\ manifest = ManifestOf(w.edges)
    /\ srcLinks = links
    /\ disk0 = SourceDisk(installed) \cup TargetDisk(root, w.tstate)
    /\ overwriteExisting = w.overwrite
    /\ targetFolderParameter = w.param
    /\ resolveFailure = w.failure
    /\ platform = w.platform
    /\ calls = 1
    /\ disk = SourceDisk(installed) \cup TargetDisk(root, w.tstate)
    /\ createdLinks = {}
    /\ deployScenarioJson = EmptyScenario
    /\ projectJsonsByName = EmptyMap
    /\ targetRootFolder = NoPath
    /\ sourceRootFolder = NoPath
    /\ pc = "load"
    /\ error = ""
    /\ subIdx = 0
    /\ usedNames = {}
    /\ included = <<>>
    /\ projIdx = 0
    /\ targetSubFolder = NoPath
    /\ recorded = {}
    /\ foldersToCopy = <<>>
    /\ copyIdx = 0
    /\ linksToCopy = {}
    /\ stack = <<>>
    /\ log = <<>>
    /\ descents = <<>>
    /\ collectCall = NoCall
    /\ lastLink = NoLink
    /\ started = <<>>
    /\ finished = <<>>

Init ==
  /\ \E w \in Worlds : DeployInit(w)
  /\ lockfileVersion = JsString(<<"5">>)
  /\ majorVersion = NotCalled

----------------------------------------------------------------------------
(* deployScenario, step by step *)

Fail(tag) == pc' = "failed" /\ error' = tag

Logged(op) == log' = Append(log, [op |-> op, sub |-> subIdx])

MapSet(m, k, v) == [x \in DOMAIN m \cup {k} |-> IF x = k THEN v ELSE m[x]]

\* _loadConfigFile, line 79: the test made for an additionalProjectsToInclude entry
AdditionalProjectFound(projectSetting, additionalProjectToInclude) ==
  GetProjectByName(projectSetting.projectName) # NoPath

\* _loadConfigFile, lines 72-85: the loop over projectSettings; the map keeps
\* the entries set before a throw
RECURSIVE LoadSettings(_, _)
LoadSettings(settings, map) ==
  IF settings = <<>> THEN [error |-> "", map |-> map]
  ELSE LET ps == Head(settings) IN
       IF GetProjectByName(ps.projectName) = NoPath
         THEN [error |-> "ProjectSettingsNotFound", map |-> map]
       ELSE IF \E i \in 1..Len(ps.additionalProjectsToInclude) :
                 ~AdditionalProjectFound(ps, ps.additionalProjectsToInclude[i])
         THEN [error |-> "AdditionalProjectNotFound", map |-> map]
       ELSE LoadSettings(Tail(settings), MapSet(map, ps.projectName, ps))

\* deployScenario line 307: _loadConfigFile(scenarioName)
LoadConfigFile ==
  /\ pc = "load"
  /\ IF ~scenarioFile.exists
       THEN /\ Fail("ScenarioNotFound")
            /\ UNCHANGED <<deployScenarioJson, projectJsonsByName>>
       ELSE LET r == LoadSettings(scenarioFile.json.projectSettings, projectJsonsByName) IN
            /\ deployScenarioJson' = scenarioFile.json
            /\ projectJsonsByName' = r.map
            /\ IF r.error # "" THEN Fail(r.error) ELSE pc' = "prepare" /\ error' = error
  /\ UNCHANGED <<worldVars, fsVars, targetRootFolder, sourceRootFolder, subIdx, usedNames,
                 subVars, histVars>>

\* a target root that is used as it is found
PreparedTarget_AsFound(root, d, overwrite) == [ok |-> TRUE, disk |-> EnsureFolder(root, d)]

\* deployScenario lines 321-332: the target root is created when missing; a
\* root that holds something is emptied with overwriteExisting, refused without
PreparedTarget(root, d, overwrite) ==
  LET made == EnsureFolder(root, d) IN
  IF ReadFolder(root, made) # {}
    THEN IF overwrite
           THEN [ok |-> TRUE, disk |-> EnsureEmptyFolder(root, made)]
           ELSE [ok |-> FALSE, disk |-> made]
    ELSE [ok |-> TRUE, disk |-> made]

\* deployScenario lines 309-332: the target root is chosen and prepared; the
\* links of an earlier call go with the folders ensureEmptyFolder deletes
PrepareTarget ==
  /\ pc = "prepare"
  /\ LET root == IF targetFolderParameter # NoPath
                   THEN targetFolderParameter
                   ELSE Join(CommonFolder, <<"deploy">>)
         prepared == PreparedTarget(root, disk, overwriteExisting)
     IN
     /\ targetRootFolder' = root
     /\ IF targetFolderParameter # NoPath /\ ~Exists(root, disk)
          THEN /\ Fail("TargetFolderMissing")
               /\ UNCHANGED <<sourceRootFolder, disk, subIdx>>
          ELSE /\ sourceRootFolder' = RushJsonFolder
               /\ disk' = prepared.disk
               /\ IF prepared.ok
                    THEN pc' = "plan" /\ error' = error /\ subIdx' = 1
                    ELSE Fail("TargetNotEmpty") /\ subIdx' = subIdx
  /\ createdLinks' = {c \in createdLinks : Dirname(c.newLinkPath) \in disk'}
  /\ UNCHANGED <<worldVars, deployScenarioJson, projectJsonsByName, usedNames,
                 subVars, histVars>>

\* a folder name that ignores the subdeploymentFolderName setting
SubdeploymentFolderName_Unscoped(projectName, map) == GetUnscopedName(projectName)

\* deployScenario lines 346-352: the folder name of a subdeployment
SubdeploymentFolderName(projectName, map) ==
  IF projectName \in DOMAIN map /\ map[projectName].subdeploymentFolderName # ""
    THEN map[projectName].subdeploymentFolderName
    ELSE GetUnscopedName(projectName)

\* a subdeployment of the named projects alone
IncludedProjectNames_NoAdditional(names, map, acc) == AddAll(acc, names)

\* _deploySubdeployment lines 256-268: includedProjectNamesSet, in insertion order
RECURSIVE IncludedProjectNames(_, _, _)
IncludedProjectNames(names, map, acc) ==
  IF names = <<>> THEN acc
  ELSE LET n == Head(names)
           own == AddAll(acc, <<n>>)
       IN IncludedProjectNames(Tail(names), map,
            IF n \in DOMAIN map THEN AddAll(own, map[n].additionalProjectsToInclude) ELSE own)

\* _deploySubdeployment lines 255-274: a fresh subdeployment state
BeginSubdeployment(names, folderName) ==
  /\ included' = IncludedProjectNames(names, projectJsonsByName, <<>>)
  /\ targetSubFolder' =
       Join(targetRootFolder, IF folderName = "" THEN <<>> ELSE <<folderName>>)
  /\ recorded' = {}
  /\ foldersToCopy' = <<>>
  /\ projIdx' = 1
  /\ pc' = "analyze" /\ error' = error
  /\ descents' = <<>>
  /\ collectCall' = NoCall
  /\ lastLink' = NoLink
  /\ started' = Append(started,
       [projects |-> names, folderName |-> folderName,
        folder |-> Join(targetRootFolder, IF folderName = "" THEN <<>> ELSE <<folderName>>)])
  /\ UNCHANGED <<copyIdx, linksToCopy, stack, log, finished>>

\* deployScenario lines 334-370: the next subdeployment is chosen and begun
PlanSubdeployment ==
  /\ pc = "plan"
  /\ LET sub == deployScenarioJson.subdeployments IN
     IF sub.enabled
       THEN /\ subIdx <= Len(sub.subdeploymentProjects)
            /\ LET name == sub.subdeploymentProjects[subIdx]
                   folderName == SubdeploymentFolderName(name, projectJsonsByName)
               IN
               IF GetProjectByName(name) = NoPath
                 THEN Fail("SubdeploymentProjectNotFound")
                      /\ UNCHANGED <<usedNames, subVars, histVars>>
               ELSE IF folderName \in usedNames
                 THEN Fail("FolderNameNotUnique")
                      /\ UNCHANGED <<usedNames, subVars, histVars>>
               ELSE /\ usedNames' = usedNames \cup {folderName}
                    /\ BeginSubdeployment(<<name>>, folderName)
       ELSE /\ subIdx = 1
            /\ IF Len(deployScenarioJson.projectSettings) = 0
                 THEN Fail("NoProjects") /\ UNCHANGED <<usedNames, subVars, histVars>>
                 ELSE /\ BeginSubdeployment(
                           [i \in 1..Len(deployScenarioJson.projectSettings) |->
                              deployScenarioJson.projectSettings[i].projectName], "")
                      /\ UNCHANGED usedNames
  /\ UNCHANGED <<worldVars, fsVars, fieldVars, subIdx>>

\* deployScenario line 372: every subdeployment has returned
Success ==
  /\ pc = "plan"
  /\ IF deployScenarioJson.subdeployments.enabled
       THEN subIdx > Len(deployScenarioJson.subdeployments.subdeploymentProjects)
       ELSE subIdx > 1
  /\ pc' = "done"
  /\ UNCHANGED <<worldVars, fsVars, fieldVars, error, subIdx, usedNames, subVars, histVars>>

----------------------------------------------------------------------------
(* _collectFoldersRecursive: a frame is a folder whose body is being run and *)
(* the names of allDependencyNames its loop has not reached yet             *)

Frame(folder, pending) == [folder |-> folder, pending |-> pending]

\* a resolver without the guard of line 91
MustDescend_Always(folder, folders) == TRUE

\* a resolver that leaves out a folder lying inside a recorded one
MustDescend_Unnested(folder, folders) ==
  /\ folder \notin SeqToSet(folders)
  /\ \A f \in SeqToSet(folders) : ~IsPrefix(f, folder)

\* lines 91-92: the body is entered only for a folder not yet in foldersToCopy
MustDescend(folder, folders) == folder \notin SeqToSet(folders)

\* lines 88-116: a call for <folder>/package.json; the folder is recorded and
\* a frame pushed, or the call returns at once
Enter(folder, folders, stk, includeDev) ==
  IF MustDescend(folder, folders)
    THEN [folders |-> Append(folders, folder),
          stack |-> Append(stk, Frame(folder,
                      AllDependencyNames(LoadPackageJson(folder, manifest), includeDev))),
          entered |-> TRUE]
    ELSE [folders |-> folders, stack |-> stk, entered |-> FALSE]

\* lines 118, 158-160: a body whose loop is exhausted returns to its caller
RECURSIVE Unwind(_)
Unwind(stk) ==
  IF stk # <<>> /\ stk[Len(stk)].pending = <<>>
    THEN Unwind(SubSeq(stk, 1, Len(stk) - 1))
    ELSE stk

\* the caller's loop moves past the name it has handled
Advance(stk) ==
  [stk EXCEPT ![Len(stk)] = Frame(stk[Len(stk)].folder, Tail(stk[Len(stk)].pending))]

\* after a step of the resolver: back in _deploySubdeployment's loop when the
\* top-level call has returned
Resume(stk) ==
  /\ stack' = stk
  /\ IF stk = <<>>
       THEN /\ pc' = "analyze" /\ projIdx' = projIdx + 1
            /\ collectCall' = [collectCall EXCEPT !.active = FALSE]
       ELSE /\ pc' = "collect" /\ projIdx' = projIdx
            /\ collectCall' = collectCall
  /\ error' = error

\* _deploySubdeployment lines 276-284: the next included project is analyzed
AnalyzeProject ==
  /\ pc = "analyze"
  /\ projIdx <= Len(included)
  /\ LET folder == GetProjectByName(included[projIdx]) IN
     IF folder = NoPath
       THEN /\ Fail("ProjectNotDefined")
            /\ UNCHANGED <<foldersToCopy, stack, projIdx, descents, collectCall, log>>
     ELSE IF MustDescend(folder, foldersToCopy) /\ ~Exists(Join(folder, <<"package.json">>), disk)
       THEN /\ Fail("PackageJsonNotFound")
            /\ UNCHANGED <<foldersToCopy, stack, projIdx, descents, collectCall, log>>
       ELSE LET e == Enter(folder, foldersToCopy, <<>>, deployScenarioJson.includeDevDependencies)
                stk == Unwind(e.stack)
            IN
            /\ foldersToCopy' = e.folders
            /\ descents' = IF e.entered THEN Append(descents, folder) ELSE descents
            /\ stack' = stk
            /\ collectCall' = [root |-> folder, startEmpty |-> foldersToCopy = <<>>,
                               active |-> stk # <<>>]
            /\ IF stk = <<>>
                 THEN pc' = "analyze" /\ projIdx' = projIdx + 1
                 ELSE pc' = "collect" /\ projIdx' = projIdx
            /\ error' = error
            /\ Logged("resolve")
  /\ UNCHANGED <<worldVars, fsVars, fieldVars, subIdx, usedNames, included, targetSubFolder,
                 recorded, copyIdx, linksToCopy, lastLink, started, finished>>

\* _collectFoldersRecursive lines 118-158: one iteration of the loop over
\* allDependencyNames in the innermost running body
CollectStep ==
  /\ pc = "collect"
  /\ LET top == stack[Len(stack)]
         name == Head(top.pending)
         r == ResolveSync(name, top.folder, disk, srcLinks)
         packageJson == LoadPackageJson(top.folder, manifest)
     IN
     /\ recorded' = recorded \cup AnalyzePath(top.folder, srcLinks)
                      \cup (IF r.found THEN AnalyzePath(r.probe, srcLinks) ELSE {})
     /\ Logged("resolve")
     /\ IF ~r.found
          THEN IF resolveFailure = "throw"
                 THEN /\ Fail("CannotFindModule")
                      /\ UNCHANGED <<foldersToCopy, stack, projIdx, descents, collectCall>>
               ELSE IF name \in OptionalDependencyNames(packageJson)
                 THEN /\ Resume(Unwind(Advance(stack)))
                      /\ UNCHANGED <<foldersToCopy, descents>>
               ELSE /\ Fail("ErrorResolving")
                    /\ UNCHANGED <<foldersToCopy, stack, projIdx, descents, collectCall>>
          ELSE LET found == TryGetPackageJsonFilePathFor(r.path, disk) IN
               IF found = NoPath
                 THEN /\ Fail("ErrorFindingPackageJson")
                      /\ UNCHANGED <<foldersToCopy, stack, projIdx, descents, collectCall>>
                 ELSE LET e == Enter(Dirname(found), foldersToCopy, Advance(stack),
                                     deployScenarioJson.includeDevDependencies)
                      IN
                      /\ foldersToCopy' = e.folders
                      /\ descents' = IF e.entered THEN Append(descents, Dirname(found))
                                     ELSE descents
                      /\ Resume(Unwind(e.stack))
  /\ UNCHANGED <<worldVars, fsVars, fieldVars, subIdx, usedNames, included, targetSubFolder,
                 copyIdx, linksToCopy, lastLink, started, finished>>

----------------------------------------------------------------------------
(* _deploySubdeployment: copy, then links *)

\* _deploySubdeployment lines 287-289: Sort.sortSet(foldersToCopy)
SortFolders ==
  /\ pc = "analyze"
  /\ projIdx > Len(included)
  /\ foldersToCopy' = SortPaths(SeqToSet(foldersToCopy))
  /\ copyIdx' = 1
  /\ pc' = "copy"
  /\ UNCHANGED <<worldVars, fsVars, fieldVars, error, subIdx, usedNames, included, projIdx,
                 targetSubFolder, recorded, linksToCopy, stack, histVars>>

\* _deployFolder lines 179-196: what the filter of copySync lets through
CopiedEntries(sourceFolderPath, d) ==
  {p \in d : /\ IsUnderOrEqual(p, sourceFolderPath)
             /\ ~IsUnderOrEqual(p, Join(sourceFolderPath, <<"node_modules">>))}

\* _deployFolder lines 189-193: the links the filter hands to the analyzer
LinksMet(sourceFolderPath, links) ==
  {l \in links : /\ IsUnderOrEqual(l.linkPath, sourceFolderPath)
                 /\ ~IsUnderOrEqual(l.linkPath, Join(sourceFolderPath, <<"node_modules">>))}

\* links reported whether or not the folders are copied
AllFoldersCopied_Anytime(idx, folders) == TRUE

\* links created as soon as one folder is copied
AllFoldersCopied_AfterFirst(idx, folders) == idx > 1

\* _deploySubdeployment lines 290-295: the loop over foldersToCopy has run to
\* its end when the links are reported and created
AllFoldersCopied(idx, folders) == idx > Len(folders)

\* _deploySubdeployment lines 290-292 with _deployFolder: one folder is copied
DeployFolder ==
  /\ pc = "copy"
  /\ copyIdx <= Len(foldersToCopy)
  /\ LET src == foldersToCopy[copyIdx]
         tgt == RemapPathForDeployFolder(src, sourceRootFolder, targetSubFolder)
         writes == {RemapPathForDeployFolder(p, sourceRootFolder, targetSubFolder).path :
                      p \in CopiedEntries(src, disk)}
         met == LinksMet(src, srcLinks)
     IN
     /\ Logged("copy")
     /\ IF ~tgt.ok
          THEN /\ Fail("SourceNotUnderRoot")
               /\ UNCHANGED <<disk, recorded, copyIdx>>
        ELSE IF IsUnderOrEqual(tgt.path, src)
          THEN /\ Fail("CopyIntoItself")
               /\ UNCHANGED <<disk, recorded, copyIdx>>
        ELSE IF \E q \in writes : IsFile(q) /\ q \in disk
          THEN /\ Fail("CopyCollision")
               /\ disk' = disk \cup Prefixes(tgt.path) \cup {q \in writes : ~IsFile(q)}
               /\ recorded' = recorded \cup UNION {AnalyzePath(l.linkPath, srcLinks) : l \in met}
               /\ copyIdx' = copyIdx
        ELSE /\ disk' = disk \cup Prefixes(tgt.path) \cup writes
             /\ recorded' = recorded \cup UNION {AnalyzePath(l.linkPath, srcLinks) : l \in met}
             /\ copyIdx' = copyIdx + 1
             /\ pc' = "copy" /\ error' = error
  /\ UNCHANGED <<worldVars, createdLinks, fieldVars, subIdx, usedNames, included, projIdx,
                 targetSubFolder, foldersToCopy, linksToCopy, stack, descents, collectCall,
                 lastLink, started, finished>>

\* _deploySubdeployment lines 294-295: reportSymlinks()
CollectLinks ==
  /\ pc = "copy"
  /\ AllFoldersCopied(copyIdx, foldersToCopy)
  /\ linksToCopy' = ReportSymlinks(recorded)
  /\ pc' = "link"
  /\ UNCHANGED <<worldVars, fsVars, fieldVars, error, subIdx, usedNames, included, projIdx,
                 targetSubFolder, recorded, foldersToCopy, copyIdx, stack, histVars>>

\* _deploySymlink lines 219-250: the call that creates the link
LinkMechanism(plat, kind) ==
  IF plat = "win32"
    THEN IF kind = "folderLink" THEN "createSymbolicLinkJunction" ELSE "createHardLink"
    ELSE IF kind = "folderLink" THEN "createSymbolicLinkFolder" ELSE "createSymbolicLinkFile"

\* _deploySymlink lines 216-250: the linkTargetPath handed to that call
LinkTargetPath(plat, kind, relativeTargetPath, targetPath) == relativeTargetPath

\* a _deploySymlink that looks for the folder of the target, not the target
TargetCreated_ParentOnly(targetPath, d) == Exists(Dirname(targetPath), d)

\* a _deploySymlink that does not look for the target
TargetCreated_Always(targetPath, d) == TRUE

\* _deploySymlink lines 207-210: has the link target been created yet?
TargetCreated(targetPath, d) == Exists(targetPath, d)

\* a caller that goes on to the next link whatever _deploySymlink returns
MustAbort_Never(returned) == FALSE

\* _deploySubdeployment lines 298-300: a link that was not created ends the run
MustAbort(returned) == ~returned

\* the links created so far, as the filesystem follows them
TargetLinks == {Link(c.kind, c.newLinkPath, c.target) : c \in createdLinks}

\* _deploySubdeployment lines 297-301 with _deploySymlink: one link is created,
\* or the run fails
DeploySymlink ==
  /\ pc = "link"
  /\ \E l \in linksToCopy :
       LET linkPath == RemapPathForDeployFolder(l.linkPath, sourceRootFolder, targetSubFolder)
           targetPath == RemapPathForDeployFolder(l.targetPath, sourceRootFolder, targetSubFolder)
           newLinkFolder == Dirname(linkPath.path)
           made == EnsureFolder(newLinkFolder, disk)
           relativeTargetPath == Relative(RealPath(newLinkFolder, TargetLinks), targetPath.path)
       IN
       /\ Logged("link")
       /\ linksToCopy' = linksToCopy \ {l}
       /\ IF ~linkPath.ok \/ ~targetPath.ok
            THEN /\ Fail("SourceNotUnderRoot")
                 /\ lastLink' = [called |-> TRUE, link |-> l, result |-> "threw"]
                 /\ UNCHANGED <<disk, createdLinks>>
          ELSE IF ~TargetCreated(targetPath.path, disk)
            THEN /\ lastLink' = [called |-> TRUE, link |-> l, result |-> "false"]
                 /\ IF MustAbort(FALSE)
                      THEN Fail("TargetDoesNotExist")
                      ELSE pc' = "link" /\ error' = error
                 /\ UNCHANGED <<disk, createdLinks>>
          ELSE /\ disk' = made
               /\ createdLinks' = createdLinks \cup
                    {[call |-> LinkMechanism(platform, l.kind),
                      kind |-> l.kind,
                      newLinkPath |-> linkPath.path,
                      linkTargetPath |->
                        LinkTargetPath(platform, l.kind, relativeTargetPath, targetPath.path),
                      target |-> targetPath.path]}
               /\ lastLink' = [called |-> TRUE, link |-> l, result |-> "true"]
               /\ pc' = "link" /\ error' = error
  /\ UNCHANGED <<worldVars, fieldVars, subIdx, usedNames, included, projIdx, targetSubFolder,
                 recorded, foldersToCopy, copyIdx, stack, descents, collectCall, started,
                 finished>>

\* _deploySubdeployment line 302: every link is created; back in deployScenario
EndSubdeployment ==
  /\ pc = "link"
  /\ linksToCopy = {}
  /\ pc' = "plan"
  /\ subIdx' = subIdx + 1
  /\ finished' = Append(finished,
       [folder |-> targetSubFolder, folders |-> SeqToSet(foldersToCopy), links |-> recorded])
  /\ UNCHANGED <<worldVars, fsVars, fieldVars, error, usedNames, subVars, log, descents,
                 collectCall, lastLink, started>>

Next ==
  \/ LoadConfigFile
  \/ PrepareTarget
  \/ PlanSubdeployment
  \/ AnalyzeProject
  \/ CollectStep
  \/ SortFolders
  \/ DeployFolder
  \/ CollectLinks
  \/ DeploySymlink
  \/ EndSubdeployment
  \/ Success

Spec == Init /\ [][Next]_vars

----------------------------------------------------------------------------
(* The resolver: closure, cycles, lenient names *)

\* the names a manifest requires under the inclusion policy
RequiredNames(n) ==
  manifest[n]["dependencies"]
  \cup (IF scenarioFile.json.includeDevDependencies THEN manifest[n]["devDependencies"] ELSE {})
  \cup manifest[n]["peerDependencies"]
  \cup manifest[n]["optionalDependencies"]

\* the folders a folder's manifest leads to: one per required name that is a
\* package on disk
DependencyFolders(folder) ==
  UNION {{Home(m) : m \in RequiredNames(n) \cap PkgNames} : n \in {x \in PkgNames : Home(x) = folder}}

RECURSIVE Closure(_)
Closure(S) ==
  LET more == S \cup UNION {DependencyFolders(f) : f \in S} IN
  IF more = S THEN S ELSE Closure(more)

\* the manifest folders reachable from a folder, itself included
Reachable(folder) == Closure({folder})

\* no manifest folder reaches itself
Acyclic == \A n \in PkgNames : Home(n) \notin Closure(DependencyFolders(Home(n)))

\* a top-level _collectFoldersRecursive call that began with an empty
\* foldersToCopy has returned without error
ReturnedFromEmpty ==
  /\ pc = "analyze"
  /\ collectCall.root # NoPath
  /\ collectCall.startEmpty
  /\ ~collectCall.active

NoDuplicates(seq) == \A i, j \in 1..Len(seq) : i # j => seq[i] # seq[j]

\* C1 (closure correctness): on an acyclic manifest graph, when
\* _collectFoldersRecursive has run on a project's manifest from an empty
\* foldersToCopy and returned without error, foldersToCopy is exactly the set
\* of manifest folders reachable from the project through the required names
\* (dependencies, devDependencies only with includeDevDependencies,
\* peerDependencies, optionalDependencies).
C1_ClosureCorrectness ==
  (ReturnedFromEmpty /\ Acyclic) =>
    SeqToSet(foldersToCopy) = Reachable(collectCall.root)

\* the resolver has returned with the project and two dependency folders, one
\* of them reached through another, on an acyclic graph
C1_Witness ==
  /\ ReturnedFromEmpty
  /\ Acyclic
  /\ Len(foldersToCopy) = 3
  /\ \E f \in SeqToSet(foldersToCopy) : f \notin DependencyFolders(collectCall.root) \cup {collectCall.root}

\* the loop iterations the resolver has run in the current subdeployment
ResolveSteps == Cardinality({i \in 1..Len(log) : log[i] = [op |-> "resolve", sub |-> subIdx]})

\* one call per included project and one iteration per name of each manifest
StepBudget ==
  Len(included) + Cardinality(UNION {{<<n, m>> : m \in RequiredNames(n)} : n \in PkgNames})

\* C2 (cycle termination): on every manifest graph, cycles and
\* self-dependencies included, the resolver never enters the body for a folder
\* twice, returns with each reachable folder recorded exactly once, and comes
\* to an end: while it runs it can take a step, and it takes no more steps
\* than there are names in the manifests.
C2_CycleTermination ==
  /\ NoDuplicates(descents)
  /\ NoDuplicates(foldersToCopy)
  /\ ReturnedFromEmpty => SeqToSet(foldersToCopy) = Reachable(collectCall.root)
  /\ pc = "collect" => (stack # <<>> /\ stack[Len(stack)].pending # <<>>)
  /\ pc \in {"collect", "analyze"} => ResolveSteps <= StepBudget

\* the resolver has returned from a graph with a cycle through two folders
C2_Witness ==
  /\ ReturnedFromEmpty
  /\ ~Acyclic
  /\ Home(NB) \in Closure(DependencyFolders(Home(NC)))
  /\ Home(NC) \in Closure(DependencyFolders(Home(NB)))
  /\ {Home(NB), Home(NC)} \subseteq SeqToSet(foldersToCopy)

\* the name whose resolution ended the run, and the manifest that lists it
FailedName == Head(stack[Len(stack)].pending)
FailedIn == LoadPackageJson(stack[Len(stack)].folder, manifest)

ResolutionFailed == pc = "failed" /\ error \in {"CannotFindModule", "ErrorResolving"}

\* the example of the specification: A with dependencies {B},
\* devDependencies {C}, peerDependencies {D}, D not on disk, no
\* devDependencies included
LenientExample ==
  /\ manifest = ManifestOf({Edge(NA, "dependencies", NB), Edge(NA, "devDependencies", NC),
                            Edge(NA, "peerDependencies", NZ)})
  /\ ~scenarioFile.json.includeDevDependencies

\* C3 (lenient skip): a name under peerDependencies or optionalDependencies
\* that does not resolve never ends the run, and in the example the resolver
\* returns with foldersToCopy = {A, B}.
C3_LenientSkip ==
  /\ ResolutionFailed =>
       FailedName \notin FailedIn["peerDependencies"] \cup FailedIn["optionalDependencies"]
  /\ (LenientExample /\ pc \in {"failed", "done"}) =>
       /\ pc = "done"
       /\ finished[1].folders = {Home(NA), Home(NB)}

----------------------------------------------------------------------------
(* Links *)

\* where the current subdeployment puts a path of the source tree
InTarget(p) == Join(targetSubFolder, Relative(RushJsonFolder, p))

\* the link's target is a folder of foldersToCopy, or lies inside one outside
\* its node_modules
TargetInClosure(l) ==
  /\ l.targetPath \in disk0
  /\ \E f \in SeqToSet(foldersToCopy) :
       /\ IsUnderOrEqual(l.targetPath, f)
       /\ ~IsUnderOrEqual(l.targetPath, Join(f, <<"node_modules">>))

\* C4 (copy/link ordering): every folder of foldersToCopy is in the target
\* tree when links are created, and _deploySymlink returns true for every
\* recorded link whose target is a folder of foldersToCopy or lies inside one
\* outside its node_modules.
C4_CopyBeforeLink ==
  /\ pc = "link" => \A f \in SeqToSet(foldersToCopy) : InTarget(f) \in disk
  /\ (lastLink.called /\ TargetInClosure(lastLink.link)) => lastLink.result = "true"

\* a link to a folder of the closure was created after two folders were copied
C4_Witness ==
  /\ lastLink.called
  /\ lastLink.result = "true"
  /\ lastLink.link.targetPath \in SeqToSet(foldersToCopy)
  /\ Len(foldersToCopy) >= 2
  /\ \E c \in createdLinks : c.target = InTarget(lastLink.link.targetPath)

\* C5 as stated (link outside closure): a link whose target is not part of
\* the deployed closure always ends the run; it is never materialized.
C5_LinkOutsideClosure ==
  (lastLink.called /\ ~TargetInClosure(lastLink.link)) =>
    (pc = "failed" /\ lastLink.result # "true")

\* the remapped link path and target of a link lie under the source root and
\* the target exists in the target tree
Materializable(l) ==
  /\ IsUnderOrEqual(l.linkPath, RushJsonFolder)
  /\ IsUnderOrEqual(l.targetPath, RushJsonFolder)
  /\ InTarget(l.targetPath) \in disk

LinkCreatedIn(folder, l) ==
  \E c \in createdLinks :
    /\ c.newLinkPath = Join(folder, Relative(RushJsonFolder, l.linkPath))
    /\ c.target = Join(folder, Relative(RushJsonFolder, l.targetPath))

\* C5 as amended: a link whose remapped target does not exist in the
\* subdeployment's target tree when _deploySymlink is called, or whose path or
\* target lies outside the source root, ends the run and is not created; a
\* subdeployment that returns has created every link it recorded.
C5_LinkTargetMissing ==
  /\ (lastLink.called /\ ~Materializable(lastLink.link)) =>
       /\ pc = "failed"
       /\ lastLink.result # "true"
       /\ ~LinkCreatedIn(targetSubFolder, lastLink.link)
  /\ \A k \in 1..Len(finished) : \A l \in finished[k].links : LinkCreatedIn(finished[k].folder, l)

\* a link whose target is missing from the target tree has ended the run
C5_Witness ==
  /\ lastLink.called
  /\ lastLink.result = "false"
  /\ IsUnderOrEqual(lastLink.link.targetPath, RushJsonFolder)
  /\ ~TargetInClosure(lastLink.link)
  /\ pc = "failed"

----------------------------------------------------------------------------
(* The orchestration: folder names, the target guard, errors, fail-stop *)

ScenarioJson == scenarioFile.json
SubProjects == ScenarioJson.subdeployments.subdeploymentProjects
SubdeploymentsEnabled == scenarioFile.exists /\ ScenarioJson.subdeployments.enabled

\* the folder name the scenario file gives a subdeployment project: its
\* subdeploymentFolderName setting, else its unscoped name
DeclaredFolderName(n) ==
  LET own == {i \in 1..Len(ScenarioJson.projectSettings) :
                /\ ScenarioJson.projectSettings[i].projectName = n
                /\ ScenarioJson.projectSettings[i].subdeploymentFolderName # ""}
  IN IF own = {} THEN n[2]
     ELSE ScenarioJson.projectSettings[CHOOSE i \in own : \A j \in own : j <= i].subdeploymentFolderName

\* C6 (folder-name uniqueness): with subdeployments enabled, every
\* subdeployment is begun under the folder name its project declares, no two
\* subdeployments of a run share a folder name or a target folder, a second
\* entry with a folder name already used ends the run with the "not unique"
\* error, and entries with pairwise distinct folder names never raise it.
C6_FolderNameUniqueness ==
  SubdeploymentsEnabled =>
    /\ \A k \in 1..Len(started) : started[k].folderName = DeclaredFolderName(SubProjects[k])
    /\ \A i, j \in 1..Len(started) :
         i # j => (started[i].folderName # started[j].folderName
                   /\ started[i].folder # started[j].folder)
    /\ (pc = "plan" /\ subIdx <= Len(SubProjects) /\ SubProjects[subIdx] \in RushProjects
        /\ \E i \in 1..(subIdx - 1) :
             DeclaredFolderName(SubProjects[i]) = DeclaredFolderName(SubProjects[subIdx]))
         => ~ENABLED (PlanSubdeployment /\ pc' # "failed")
    /\ error = "FolderNameNotUnique" =>
         \E i \in 1..(subIdx - 1) :
           DeclaredFolderName(SubProjects[i]) = DeclaredFolderName(SubProjects[subIdx])

\* two projects with the same unscoped name, given distinct
\* subdeploymentFolderName settings, were both deployed
C6_Witness ==
  /\ pc = "done"
  /\ SubProjects = <<NA, NSA>>
  /\ Len(finished) = 2
  /\ started[1].folderName = "x"
  /\ started[2].folderName = "y"

\* the target root of the run and what it held before the run
TargetRoot == IF targetFolderParameter = NoPath THEN DefaultTarget ELSE targetFolderParameter
Below(root, d) == {p \in d : IsPrefix(root, p) /\ p # root}

\* C7 (target non-empty guard): a run against a target root that holds
\* something fails, without overwriteExisting, before any resolve, copy or
\* link step and leaves the filesystem as it was; with overwriteExisting
\* nothing the target held is left when the first subdeployment begins, and
\* nothing of it is in the tree afterwards.
C7_TargetNonEmptyGuard ==
  Below(TargetRoot, disk0) # {} =>
    /\ ~overwriteExisting =>
         /\ pc \in {"load", "prepare", "failed"}
         /\ log = <<>>
         /\ disk = disk0
         /\ createdLinks = {}
    /\ (overwriteExisting /\ pc \notin {"load", "prepare"} /\ error = "") =>
         /\ Below(TargetRoot, disk0) \cap disk = {}
         /\ (log = <<>> => Below(TargetRoot, disk) = {})

\* a run with overwriteExisting has emptied a target that held something and
\* copied a folder into it
C7_Witness ==
  /\ Below(TargetRoot, disk0) # {}
  /\ overwriteExisting
  /\ \E i \in 1..Len(log) : log[i].op = "copy"
  /\ Below(TargetRoot, disk) # {}

ConfigurationErrors ==
  {"ScenarioNotFound", "ProjectSettingsNotFound", "AdditionalProjectNotFound",
   "ProjectNotDefined", "SubdeploymentProjectNotFound", "FolderNameNotUnique", "NoProjects"}

\* C8 (configuration errors precede all filesystem mutation): a run that
\* fails because of a missing scenario file, an unknown project name, a
\* duplicate subdeployment folder name or an empty project list has created,
\* deleted and written nothing.
C8_ConfigErrorsBeforeMutation ==
  (pc = "failed" /\ error \in ConfigurationErrors) => (disk = disk0 /\ createdLinks = {})

LoadErrors == {"ScenarioNotFound", "ProjectSettingsNotFound", "AdditionalProjectNotFound"}

\* C9 (load-time validation): after _loadConfigFile has returned, every
\* projectName and every additionalProjectsToInclude entry of projectSettings
\* is a project of the registry.
C9_LoadTimeValidation ==
  (pc # "load" /\ ~(pc = "failed" /\ error \in LoadErrors)) =>
    \A i \in 1..Len(deployScenarioJson.projectSettings) :
      LET ps == deployScenarioJson.projectSettings[i] IN
      /\ ps.projectName \in RushProjects
      /\ \A j \in 1..Len(ps.additionalProjectsToInclude) :
           ps.additionalProjectsToInclude[j] \in RushProjects

\* the subdeployments the scenario enumerates
Enumerated == IF SubdeploymentsEnabled THEN Len(SubProjects) ELSE 1

\* a subdeployment that returned has resolved its projects, copied every
\* folder and created every link
Completed(k) ==
  /\ finished[k].folder = started[k].folder
  /\ \A i \in 1..Len(started[k].projects) : Home(started[k].projects[i]) \in finished[k].folders
  /\ \A f \in finished[k].folders : Join(finished[k].folder, Relative(RushJsonFolder, f)) \in disk
  /\ \A l \in finished[k].links : LinkCreatedIn(finished[k].folder, l)

\* C10 (fail-stop and success): deployScenario returns normally only when
\* every enumerated subdeployment has resolved, copied and linked; a
\* _deploySymlink that does not create its link ends the run; after a fatal
\* error nothing more is resolved, copied, linked or changed.
C10_FailStop ==
  /\ [](pc = "done" => (Len(finished) = Enumerated /\ \A k \in 1..Enumerated : Completed(k)))
  /\ []((lastLink.called /\ lastLink.result # "true") => pc = "failed")
  /\ [][pc = "failed" => UNCHANGED vars]_vars

\* a run of two subdeployments has returned normally
C10_Witness ==
  /\ pc = "done"
  /\ Enumerated = 2
  /\ Completed(1) /\ Completed(2)
  /\ createdLinks # {}

----------------------------------------------------------------------------
(* Enumeration, phases, paths *)

\* the effective list of projects to deploy is empty
EmptyProjectList ==
  /\ scenarioFile.exists
  /\ IF ScenarioJson.subdeployments.enabled
       THEN SubProjects = <<>>
       ELSE ScenarioJson.projectSettings = <<>>

\* C11 (empty effective project list): a run whose effective project list is
\* empty, with subdeployments disabled or enabled, never returns normally, and
\* no run returns normally having run zero subdeployments.
C11_EmptyProjectList ==
  /\ EmptyProjectList => pc # "done"
  /\ pc = "done" => Len(finished) >= 1

\* the place of a step in its subdeployment
PhaseRank(op) == CASE op = "resolve" -> 1 [] op = "copy" -> 2 [] op = "link" -> 3

StepsOf(op, sub) == {i \in 1..Len(log) : log[i] = [op |-> op, sub |-> sub]}

InSubdeployment == pc \in {"analyze", "collect", "copy", "link"}

\* C12 (phase ordering): scenario loading and target preparation are over
\* before the first subdeployment starts; the steps of subdeployment k all
\* come before the steps of subdeployment k+1; within a subdeployment every
\* resolve step comes before every copy step and every copy step before every
\* link step; the copy phase begins when every included project is resolved
\* and the link phase when every folder of foldersToCopy is copied; a
\* subdeployment begins only when the one before has returned.
C12_PhaseOrdering ==
  /\ (log # <<>> \/ started # <<>>) =>
       (pc \notin {"load", "prepare"} /\ targetRootFolder # NoPath /\ sourceRootFolder # NoPath)
  /\ \A i, j \in 1..Len(log) :
       i < j => \/ log[i].sub < log[j].sub
                \/ (log[i].sub = log[j].sub /\ PhaseRank(log[i].op) <= PhaseRank(log[j].op))
  /\ \A i \in 1..Len(log) : log[i].sub \in 1..Len(started)
  /\ InSubdeployment => (Len(started) = subIdx /\ Len(finished) = subIdx - 1)
  /\ pc \in {"plan", "done"} => Len(finished) = Len(started)
  /\ pc \in {"copy", "link"} => (projIdx > Len(included) /\ stack = <<>>)
  /\ pc = "link" => Cardinality(StepsOf("copy", subIdx)) = Len(foldersToCopy)
  /\ pc = "done" => \A k \in 1..Len(finished) :
       StepsOf("resolve", k) # {} /\ StepsOf("copy", k) # {}

\* the second subdeployment of a run resolves after the first has resolved,
\* copied and created a link
C12_Witness ==
  /\ subIdx = 2
  /\ pc = "link"
  /\ StepsOf("resolve", 1) # {} /\ StepsOf("copy", 1) # {} /\ StepsOf("link", 1) # {}
  /\ StepsOf("resolve", 2) # {} /\ StepsOf("copy", 2) # {}

\* C13 as stated (ancestor-uniqueness): no path in foldersToCopy is a strict
\* sub-path of another path in foldersToCopy.
C13_AncestorUniqueness ==
  \A f, g \in SeqToSet(foldersToCopy) : f # g => ~IsPrefix(f, g)

\* a folder with its own package.json
PackageRoot(f) == Join(f, <<"package.json">>) \in disk0

\* C13 as amended: foldersToCopy holds no path twice and every path in it is
\* a package root; a package root that lies inside another recorded one (below
\* its node_modules, or a project folder inside a project folder) is recorded
\* alongside its ancestor.
C13_PackageRootsOnce ==
  /\ NoDuplicates(foldersToCopy)
  /\ \A f \in SeqToSet(foldersToCopy) : PackageRoot(f)
  /\ (ReturnedFromEmpty /\ collectCall.root = Home(NA)) =>
       \A n \in {ND, NP} : n \in RequiredNames(NA) => Home(n) \in SeqToSet(foldersToCopy)

\* the resolver has returned with a project folder and a folder below its
\* node_modules
C13_Witness ==
  /\ ReturnedFromEmpty
  /\ collectCall.root = Home(NA)
  /\ ND \in RequiredNames(NA)
  /\ {Home(NA), Home(ND)} \subseteq SeqToSet(foldersToCopy)

\* C14 (no copy collisions): in a run that starts from an empty target, no
\* _deployFolder call meets a target entry that exists already, so the
\* errorOnExist collision error is never raised.
C14_NoCopyCollisions ==
  Below(TargetRoot, disk0) = {} => error # "CopyCollision"

\* a step that is a call of _deploySymlink
DeploySymlinkCalled == pc = "link" /\ log' # log

\* C15 (_deploySymlink on a missing target): a call for a link whose remapped
\* target does not exist in the target tree returns false and leaves the
\* filesystem as it was, the link's parent folder included; a call for a link
\* whose remapped target exists creates the parent folder and the link and
\* returns true.
C15_MissingTarget ==
  [][DeploySymlinkCalled =>
       LET l == lastLink'.link IN
       (IsUnderOrEqual(l.linkPath, sourceRootFolder) /\ IsUnderOrEqual(l.targetPath, sourceRootFolder)) =>
         IF InTarget(l.targetPath) \notin disk
           THEN /\ lastLink'.result = "false"
                /\ disk' = disk
                /\ createdLinks' = createdLinks
           ELSE /\ lastLink'.result = "true"
                /\ Dirname(InTarget(l.linkPath)) \in disk'
                /\ disk' = disk \cup Prefixes(Dirname(InTarget(l.linkPath)))
                /\ \E c \in createdLinks' :
                     c.newLinkPath = InTarget(l.linkPath) /\ c.target = InTarget(l.targetPath)
                /\ Cardinality(createdLinks' \ createdLinks) = 1]_vars

\* one call has created a link and its parent folder node_modules, a later
\* call for a link whose target is missing has returned false
C15_Witness ==
  /\ lastLink.called
  /\ lastLink.result = "false"
  /\ InTarget(lastLink.link.targetPath) \notin disk
  /\ \E c \in createdLinks :
       /\ Dirname(c.newLinkPath) = Join(targetSubFolder, <<"a", "node_modules">>)
       /\ Dirname(c.newLinkPath) \in disk

\* C16 (platform/kind link matrix): on win32 a folderLink is created as a
\* junction with the relative path from the link's parent folder to the target
\* and a fileLink as a hard link with the absolute remapped target path; on
\* every other platform a folderLink is created as a folder symbolic link and
\* a fileLink as a file symbolic link, both with the relative path.
C16_LinkMatrix ==
  \A c \in createdLinks :
    LET relativePath == Relative(Dirname(c.newLinkPath), c.target) IN
    /\ c.call = (IF platform = "win32"
                   THEN IF c.kind = "folderLink" THEN "createSymbolicLinkJunction"
                                                 ELSE "createHardLink"
                   ELSE IF c.kind = "folderLink" THEN "createSymbolicLinkFolder"
                                                 ELSE "createSymbolicLinkFile")
    /\ c.linkTargetPath = (IF c.call = "createHardLink" THEN c.target ELSE relativePath)

\* the paths a run may hand to _remapPathForDeployFolder
SourcePaths == disk0 \cup {l.linkPath : l \in srcLinks} \cup {l.targetPath : l \in srcLinks}

Remapped(p) == RemapPathForDeployFolder(p, sourceRootFolder, targetSubFolder)

\* C17 (path remapping): in every subdeployment (the function is evaluated
\* on all paths of the source tree as its copy phase begins) a path under or
\* equal to the source root is remapped
\* to the subdeployment's target folder followed by the path's segments below
\* the source root, so distinct paths are remapped to distinct paths and the
\* relative path between two paths is kept; a path not under the source root
\* is refused, and a folder of foldersToCopy, a link path or a link target
\* outside the source root ends the run in _deployFolder or _deploySymlink,
\* which neither returns false nor writes outside the target tree.
C17_PathRemapping ==
  (sourceRootFolder # NoPath /\ targetSubFolder # NoPath) =>
    LET inside == {p \in SourcePaths : IsPrefix(sourceRootFolder, p)} IN
    /\ (pc = "copy" /\ copyIdx = 1) =>
         /\ \A p \in inside :
              /\ Remapped(p).ok
              /\ Remapped(p).path =
                   targetSubFolder \o SubSeq(p, Len(sourceRootFolder) + 1, Len(p))
         /\ \A p \in SourcePaths \ inside : ~Remapped(p).ok
         /\ \A p, q \in inside :
              /\ p # q => Remapped(p).path # Remapped(q).path
              /\ Relative(Remapped(p).path, Remapped(q).path) = Relative(p, q)
    /\ (lastLink.called /\ ({lastLink.link.linkPath, lastLink.link.targetPath} \ inside # {})) =>
         (pc = "failed" /\ error = "SourceNotUnderRoot" /\ lastLink.result = "threw")
    /\ pc \in {"link", "plan", "done"} => SeqToSet(foldersToCopy) \subseteq inside
    /\ (pc = "copy" /\ copyIdx > 1) => SeqToSet(SubSeq(foldersToCopy, 1, copyIdx - 1)) \subseteq inside
    /\ \A q \in disk \ disk0 : IsPrefix(targetRootFolder, q)
    /\ \A c \in createdLinks : IsPrefix(targetRootFolder, c.newLinkPath)

\* a folder was copied, then a link whose target lies outside the source root
\* has ended the run in _deploySymlink
C17_Witness ==
  /\ pc = "failed"
  /\ error = "SourceNotUnderRoot"
  /\ lastLink.called
  /\ lastLink.result = "threw"
  /\ ~IsPrefix(sourceRootFolder, lastLink.link.targetPath)
  /\ Remapped(Home(NA)).path \in disk

\* the additionalProjectsToInclude the scenario file declares for a project
DeclaredAdditional(n) ==
  LET own == {i \in 1..Len(ScenarioJson.projectSettings) :
                ScenarioJson.projectSettings[i].projectName = n}
  IN IF own = {} THEN {}
     ELSE SeqToSet(ScenarioJson.projectSettings[CHOOSE i \in own : \A j \in own : j <= i]
                     .additionalProjectsToInclude)

\* the projects of projectSettings, in list order
SettingsProjects ==
  [i \in 1..Len(ScenarioJson.projectSettings) |-> ScenarioJson.projectSettings[i].projectName]

\* C18 (subdeployment enumeration): with subdeployments enabled the k-th
\* subdeployment begun is the one of the k-th entry of subdeploymentProjects,
\* rooted at the target root joined with the project's subdeploymentFolderName
\* or else its unscoped name, and holds exactly that project and its
\* additionalProjectsToInclude; with subdeployments disabled one subdeployment
\* is begun, rooted at the target root, holding every projectSettings project
\* and their additionalProjectsToInclude; a run that returns has run each
\* enumerated subdeployment once.
C18_SubdeploymentEnumeration ==
  /\ Len(started) <= Enumerated
  /\ pc = "done" => (Len(started) = Enumerated /\ Len(finished) = Enumerated)
  /\ \A k \in 1..Len(started) :
       IF SubdeploymentsEnabled
         THEN /\ started[k].projects = <<SubProjects[k]>>
              /\ started[k].folder = Join(TargetRoot, <<DeclaredFolderName(SubProjects[k])>>)
         ELSE /\ started[k].projects = SettingsProjects
              /\ started[k].folder = TargetRoot
  /\ InSubdeployment =>
       /\ targetSubFolder = started[subIdx].folder
       /\ SeqToSet(included) =
            SeqToSet(started[subIdx].projects)
            \cup UNION {DeclaredAdditional(n) : n \in SeqToSet(started[subIdx].projects)}
  /\ \A k \in 1..Len(finished) :
       \A n \in SeqToSet(started[k].projects) \cup
                UNION {DeclaredAdditional(m) : m \in SeqToSet(started[k].projects)} :
         n \in PkgNames /\ Home(n) \in finished[k].folders

\* a run of two subdeployments has returned: the first, under its
\* subdeploymentFolderName, holds its project and an additional project, the
\* second is under its unscoped name
C18_Witness ==
  /\ pc = "done"
  /\ SubdeploymentsEnabled
  /\ SubProjects = <<NA, NSA>>
  /\ DeclaredAdditional(NA) = {NB}
  /\ started[1].folder = Join(TargetRoot, <<"x">>)
  /\ started[2].folder = Join(TargetRoot, <<"a">>)
  /\ {Home(NA), Home(NB)} \subseteq finished[1].folders
  /\ Home(NB) \notin finished[2].folders

\* what exists at or below a folder
TreeOf(folder, d) == {p \in d : IsPrefix(folder, p)}

\* C19 (source workspace is never mutated): whatever the target folder
\* parameter and overwriteExisting, no entry of a project folder or dependency
\* folder is deleted or created by a run, and no link is created in one.
C19_SourceNeverMutated ==
  \A n \in PkgNames :
    /\ TreeOf(Home(n), disk) = TreeOf(Home(n), disk0)
    /\ \A c \in createdLinks : ~IsPrefix(Home(n), c.newLinkPath)

----------------------------------------------------------------------------
(* Several deployScenario calls on one DeployManager *)

\* the scenarios of a later call
NextScenarios ==
  {DeployA,
   File(Scenario(FALSE, <<>>, TRUE, <<NA, NSA>>)),
   File(Scenario(FALSE, <<Setting(NSA, "y", <<>>)>>, TRUE, <<NA, NSA>>))}

\* deployScenario is called again on the DeployManager after a call that
\* returned: the parameters and locals are those of the new call, the fields
\* (lines 46-54) and the filesystem are as the earlier call left them
NextCall ==
  /\ pc = "done"
  /\ calls < MaxCalls
  /\ calls' = calls + 1
  /\ \E scn \in NextScenarios, ow \in BOOLEAN :
       /\ scenarioFile' = scn
       /\ overwriteExisting' = ow
  /\ disk0' = disk
  /\ pc' = "load"
  /\ error' = ""
  /\ subIdx' = 0
  /\ usedNames' = {}
  /\ included' = <<>>
  /\ projIdx' = 0
  /\ targetSubFolder' = NoPath
  /\ recorded' = {}
  /\ foldersToCopy' = <<>>
  /\ copyIdx' = 0
  /\ linksToCopy' = {}
  /\ stack' = <<>>
  /\ log' = <<>>
  /\ descents' = <<>>
  /\ collectCall' = NoCall
  /\ lastLink' = NoLink
  /\ started' = <<>>
  /\ finished' = <<>>
  /\ UNCHANGED <<manifest, srcLinks, targetFolderParameter, resolveFailure, platform,
                 fsVars, fieldVars, lockfileVars>>

\* the first call is one of a workspace in which a and @s/a depend on c
InitCalls == Init /\ manifest = ManifestOf(ScenarioGraph) /\ platform = "linux"

NextCalls == Next \/ NextCall

SpecCalls == InitCalls /\ [][NextCalls]_vars

\* C20 (run independence across calls): in every call the folder name of each
\* subdeployment and the projects it includes are those the scenario file of
\* that call declares, whatever scenarios earlier calls have loaded.
C20_RunIndependence ==
  /\ \A k \in 1..Len(started) :
       started[k].folderName =
         (IF SubdeploymentsEnabled THEN DeclaredFolderName(SubProjects[k]) ELSE "")
  /\ InSubdeployment =>
       SeqToSet(included) =
         SeqToSet(started[subIdx].projects)
         \cup UNION {DeclaredAdditional(n) : n \in SeqToSet(started[subIdx].projects)}

----------------------------------------------------------------------------
(* getShrinkwrapFileMajorVersion on every lockfileVersion *)

VersionChars == {"5", "6", "1", ".", "a", "-", " "}

RECURSIVE StringsUpTo(_)
StringsUpTo(n) ==
  IF n = 0 THEN {<<>>}
  ELSE LET shorter == StringsUpTo(n - 1) IN
       shorter \cup {Append(t, c) : t \in {x \in shorter : Len(x) = n - 1}, c \in VersionChars}

\* a number, a string with or without a dot, a non-numeric string, a value of
\* another type
LockfileVersions ==
  {JsString(chars) : chars \in StringsUpTo(MaxLen)}
  \cup {Finite(t) : t \in (0 - MaxTenths)..MaxTenths}
  \cup {NaN, JsNumber("Infinity", 0), JsNumber("-Infinity", 0)}
  \cup {JsOther(t) : t \in {"undefined", "object", "boolean"}}

\* the function is called with the argument
CallGetShrinkwrapFileMajorVersion ==
  /\ majorVersion = NotCalled
  /\ majorVersion' = GetShrinkwrapFileMajorVersion(lockfileVersion)
  /\ UNCHANGED <<scenarioFile, manifest, srcLinks, disk0, overwriteExisting,
                 targetFolderParameter, resolveFailure, platform, calls, lockfileVersion,
                 fsVars, fieldVars, pc, error, subIdx, usedNames, subVars, histVars>>

InitLockfile ==
  /\ DeployInit(World(DeployA, {}, {}, NoPath, "absent", FALSE, "throw", "linux"))
  /\ lockfileVersion \in LockfileVersions
  /\ majorVersion = NotCalled

NextLockfile == CallGetShrinkwrapFileMajorVersion

SpecLockfile == InitLockfile /\ [][NextLockfile]_vars

\* C21 (lockfile major version): for every lockfileVersion,
\* getShrinkwrapFileMajorVersion returns exactly 5 or 6 or throws; it never
\* returns any other value.
C21_LockfileMajorVersion ==
  /\ majorVersion.status \in {"notCalled", "returned", "threw"}
  /\ majorVersion.status = "returned" => majorVersion.value \in {Integer(5), Integer(6)}

====
